---- MODULE Spec2Model ----
(***************************************************************************)
(* Two-phase-commit rename A -> A' (formal-methods/simple-2pc/impl).       *)
(* The model follows the executable layer: ExecSystem (system_v.rs)        *)
(* composing Coordinator (coordinator_v.rs), KvStore (kv_store_v.rs) and   *)
(* ExecNetwork (network_v.rs).  Every public driver operation is one       *)
(* action; the `requires` clauses of the driver are the guards.            *)
(* Spec is the driver from ExecSystem::new; SpecWithPut adds the testing   *)
(* operation store_put of the driver; NetSpec drives ExecNetwork alone and   *)
(* KvSpec drives one KvStore alone.                                        *)
(***************************************************************************)
EXTENDS Integers, Sequences, FiniteSets, Bags, TLC

(* ---------------- bounds of the model ---------------- *)
\* number of stores handed to ExecSystem::new
NumStores == 2
\* largest transaction id the coordinator may reach (recover is cut off there)
MaxTxn == 2
\* largest number of messages in flight (sends and duplications are cut off there)
MaxNet == 2

(* ---------------- configuration of ExecSystem::new ---------------- *)
key_a == "A"
key_aprime == "A'"
initial_value == 42
\* the value test_lock_failure puts under key_aprime with store_put
put_value == 99

AllStores == 0 .. (NumStores - 1)
\* store ids a caller may pass: the valid indices and one index past the end
StoreIds == 0 .. NumStores
\* transaction ids a caller may pass
TxnIds == 1 .. MaxTxn

VARIABLES
    coord,    \* Coordinator
    stores,   \* Vec<KvStore>, indexed by store id
    net,      \* ExecNetwork.messages, as a bag of ExecMessage
    last,     \* the driver operation invoked last, its arguments and its return value
    happy     \* length of the happy-path schedule executed so far (-1: the run left it)

vars == <<coord, stores, net, last, happy>>

(* ======================= ExecMessage (network_v.rs) ======================= *)
lock_req(s, t) == [type |-> "LockReq", store |-> s, txn_id |-> t]
lock_resp(s, ok, t) == [type |-> "LockResp", store |-> s, success |-> ok, txn_id |-> t]
rename_req(s, t) == [type |-> "RenameReq", store |-> s, txn_id |-> t]
rename_resp(s, t) == [type |-> "RenameResp", store |-> s, txn_id |-> t]
unlock_req(s, t) == [type |-> "UnlockReq", store |-> s, txn_id |-> t]
unlock_resp(s, t) == [type |-> "UnlockResp", store |-> s, txn_id |-> t]

\* every message a caller of net_lose / net_duplicate may name
Messages ==
    {lock_req(s, t) : s \in StoreIds, t \in TxnIds}
    \cup {lock_resp(s, ok, t) : s \in StoreIds, ok \in BOOLEAN, t \in TxnIds}
    \cup {rename_req(s, t) : s \in StoreIds, t \in TxnIds}
    \cup {rename_resp(s, t) : s \in StoreIds, t \in TxnIds}
    \cup {unlock_req(s, t) : s \in StoreIds, t \in TxnIds}
    \cup {unlock_resp(s, t) : s \in StoreIds, t \in TxnIds}

\* faulty variant: the transaction id is not compared
eq_ignores_txn_id(m1, m2) ==
    /\ m1.type = m2.type
    /\ m1.store = m2.store
    /\ (m1.type = "LockResp" => m1.success = m2.success)

\* faulty variant: the variant and the store are compared, the other fields are not
eq_variant_and_store(m1, m2) == m1.type = m2.type /\ m1.store = m2.store

\* ExecMessage::eq : same variant and all fields equal
eq(m1, m2) ==
    /\ m1.type = m2.type
    /\ m1.store = m2.store
    /\ m1.txn_id = m2.txn_id
    /\ (m1.type = "LockResp" => m1.success = m2.success)

(* ======================= ExecNetwork (network_v.rs) ======================= *)
\* ExecNetwork.messages is a Vec that is read only through scans with eq (contains,
\* count, the first match of receive) and written by push and by removing a match, so
\* the order of its elements cannot be observed: the model keeps the multiset of the
\* elements (a bag: message |-> number of copies).

\* ExecNetwork::new
net_new == EmptyBag

\* ExecNetwork::len
len(n) == BagCardinality(n)

\* ExecNetwork::send : push
send(n, m) == n (+) SetToBag({m})

\* the elements a scan for m stops at
matches(n, m) == {x \in BagToSet(n) : eq(x, m)}

\* ExecNetwork::contains : linear scan with eq
contains(n, m) == matches(n, m) # {}

\* ExecNetwork::count : number of elements that eq m
count(n, m) == BagCardinality([x \in matches(n, m) |-> n[x]])

\* faulty variant: every match is removed, not the first one only
receive_removes_all(n, m) ==
    IF contains(n, m)
    THEN [net |-> [x \in BagToSet(n) \ matches(n, m) |-> n[x]],
          result |-> <<CHOOSE x \in matches(n, m) : TRUE>>]
    ELSE [net |-> n, result |-> << >>]

\* faulty variant: a scan that finds no match removes an element all the same
receive_removes_on_miss(n, m) ==
    IF contains(n, m)
    THEN LET x == CHOOSE x \in matches(n, m) : TRUE IN
         [net |-> n (-) SetToBag({x}), result |-> <<x>>]
    ELSE IF n = EmptyBag THEN [net |-> n, result |-> << >>]
    ELSE [net |-> n (-) SetToBag({CHOOSE x \in BagToSet(n) : TRUE}), result |-> << >>]

\* faulty variant: the match is returned and stays in the network
receive_keeps_copy(n, m) ==
    IF contains(n, m)
    THEN [net |-> n, result |-> <<CHOOSE x \in matches(n, m) : TRUE>>]
    ELSE [net |-> n, result |-> << >>]

\* ExecNetwork::receive : remove and return a match; result is << >> for None
receive(n, m) ==
    IF contains(n, m)
    THEN LET x == CHOOSE x \in matches(n, m) : TRUE IN
         [net |-> n (-) SetToBag({x}), result |-> <<x>>]
    ELSE [net |-> n, result |-> << >>]

\* ExecNetwork::lose : receive(msg).is_some()
lose(n, m) == [net |-> receive(n, m).net, result |-> receive(n, m).result # << >>]

\* faulty variant: the clone is pushed without looking for the message
duplicate_without_scan(n, m) == [net |-> n (+) SetToBag({m}), result |-> TRUE]

\* ExecNetwork::duplicate : push a clone if present
duplicate(n, m) ==
    IF contains(n, m)
    THEN [net |-> n (+) SetToBag({m}), result |-> TRUE]
    ELSE [net |-> n, result |-> FALSE]

(* ========================= KvStore (kv_store_v.rs) ========================= *)
\* data : key -> value (a function on the keys present); locked : the keys of
\* the `locked` map (its values are always true); last_seen_txn_id
store_new == [data |-> << >>, locked |-> {}, last_seen_txn_id |-> 0]

contains_key(st, k) == k \in DOMAIN st.data

is_locked(st, k) == k \in st.locked

map_insert(d, k, v) == [x \in (DOMAIN d) \cup {k} |-> IF x = k THEN v ELSE d[x]]

map_remove(d, k) == [x \in (DOMAIN d) \ {k} |-> d[x]]

\* faulty variant: no request is ever taken for stale
is_stale_never(st, t) == FALSE

\* KvStore::is_stale_txn_id
is_stale_txn_id(st, t) == t <= st.last_seen_txn_id

\* faulty variant: the id is overwritten even by an older one
update_txn_id_overwrite(st, t) == [st EXCEPT !.last_seen_txn_id = t]

\* KvStore::update_txn_id
update_txn_id(st, t) ==
    IF t > st.last_seen_txn_id THEN [st EXCEPT !.last_seen_txn_id = t] ELSE st

\* faulty variant: the key is written whether it is locked or not
put_ignores_lock(st, k, v) ==
    [store |-> [st EXCEPT !.data = map_insert(st.data, k, v)], result |-> TRUE]

\* KvStore::put
put(st, k, v) ==
    IF k \in st.locked
    THEN [store |-> st, result |-> FALSE]
    ELSE [store |-> [st EXCEPT !.data = map_insert(st.data, k, v)], result |-> TRUE]

\* KvStore::delete
delete(st, k) ==
    IF k \in st.locked
    THEN [store |-> st, result |-> FALSE]
    ELSE [store |-> [st EXCEPT !.data = map_remove(st.data, k)], result |-> TRUE]

\* KvStore::lock
lock(st, k) == [st EXCEPT !.locked = st.locked \cup {k}]

\* KvStore::unlock
unlock(st, k) == [st EXCEPT !.locked = st.locked \ {k}]

\* faulty variant: the value is copied to the new key and the old key is kept
rename_keeps_old(st, old, new) ==
    IF old \in DOMAIN st.data
    THEN [store |-> [st EXCEPT !.data = map_insert(st.data, new, st.data[old])],
          result |-> <<st.data[old]>>]
    ELSE [store |-> st, result |-> << >>]

\* faulty variant: the new key is written with the default value, not the moved one
rename_default_value(st, old, new) ==
    IF old \in DOMAIN st.data
    THEN [store |-> [st EXCEPT !.data = map_insert(map_remove(st.data, old), new, 0)],
          result |-> <<st.data[old]>>]
    ELSE [store |-> st, result |-> << >>]

\* faulty variant: the value is returned and the old key removed, the new key not written
rename_drops_value(st, old, new) ==
    IF old \in DOMAIN st.data
    THEN [store |-> [st EXCEPT !.data = map_remove(st.data, old)],
          result |-> <<st.data[old]>>]
    ELSE [store |-> st, result |-> << >>]

\* KvStore::rename : result is << >> for None
rename(st, old, new) ==
    IF old \in DOMAIN st.data
    THEN [store |-> [st EXCEPT !.data = map_insert(map_remove(st.data, old), new, st.data[old])],
          result |-> <<st.data[old]>>]
    ELSE [store |-> st, result |-> << >>]

(* ====================== Coordinator (coordinator_v.rs) ====================== *)
\* SimpleSet is a Vec without repetitions: a set, and len() is its cardinality
coord_new ==
    [current_txn_id |-> 1, wal_committed |-> FALSE, phase |-> "Idle",
     locks_acquired |-> {}, renames_done |-> {}, unlocks_acked |-> {}]

\* CoordPhase
Phases == {"Idle", "Preparing", "Committed", "Cleanup", "Done", "Crashed"}

\* faulty variant: a coordinator that is done can crash as well
can_crash_when_done(p) == p \in {"Preparing", "Committed", "Cleanup", "Done"}

\* CoordPhase::can_crash
can_crash(p) == p \in {"Preparing", "Committed", "Cleanup"}

\* faulty variant: entering Preparing forgets the locks recorded so far
start_preparing_resets(c) == [c EXCEPT !.phase = "Preparing", !.locks_acquired = {}]

\* CoordPhase::is_terminal
is_terminal(p) == p = "Done"

\* Coordinator::start_preparing
start_preparing(c) == [c EXCEPT !.phase = "Preparing"]

\* faulty variant: the store id is taken for a 1-based index
record_lock_success_off_by_one(c, s) ==
    [c EXCEPT !.locks_acquired = c.locks_acquired \cup {s + 1}]

\* Coordinator::record_lock_success
record_lock_success(c, s) == [c EXCEPT !.locks_acquired = c.locks_acquired \cup {s}]

\* faulty variant: the abort keeps the locks recorded so far
handle_lock_failure_keeps_locks(c) ==
    [c EXCEPT !.phase = "Cleanup", !.renames_done = {}, !.unlocks_acked = {}]

\* Coordinator::handle_lock_failure
handle_lock_failure(c) ==
    [c EXCEPT !.phase = "Cleanup", !.locks_acquired = {}, !.renames_done = {},
              !.unlocks_acked = {}]

\* faulty variant: the phase changes and the write-ahead log is not written
decide_commit_phase_only(c) == [c EXCEPT !.phase = "Committed"]

\* Coordinator::decide_commit
decide_commit(c) == [c EXCEPT !.wal_committed = TRUE, !.phase = "Committed"]

\* faulty variant: the first rename response ends the commit phase
record_rename_done_first(c, s, n) ==
    [c EXCEPT !.renames_done = c.renames_done \cup {s}, !.phase = "Cleanup"]

\* Coordinator::record_rename_done
record_rename_done(c, s, n) ==
    LET done == c.renames_done \cup {s} IN
    IF Cardinality(done) = n
    THEN [c EXCEPT !.renames_done = done, !.phase = "Cleanup"]
    ELSE [c EXCEPT !.renames_done = done]

\* faulty variant: the acknowledgement is recorded and the phase never becomes Done
record_unlock_acked_no_done(c, s, n) ==
    [c EXCEPT !.unlocks_acked = c.unlocks_acked \cup {s}]

\* Coordinator::record_unlock_acked
record_unlock_acked(c, s, n) ==
    LET acked == c.unlocks_acked \cup {s} IN
    IF Cardinality(acked) = n
    THEN [c EXCEPT !.unlocks_acked = acked, !.phase = "Done"]
    ELSE [c EXCEPT !.unlocks_acked = acked]

\* faulty variant: the crash loses the transaction id
crash_resets_txn_id(c) ==
    [c EXCEPT !.phase = "Crashed", !.current_txn_id = 0, !.locks_acquired = {},
              !.renames_done = {}, !.unlocks_acked = {}]

\* faulty variant: the crash loses the write-ahead log
crash_forgets_wal(c) ==
    [c EXCEPT !.phase = "Crashed", !.wal_committed = FALSE, !.locks_acquired = {},
              !.renames_done = {}, !.unlocks_acked = {}]

\* faulty variant: the crash keeps the locks the coordinator had recorded
crash_keeps_locks(c) ==
    [c EXCEPT !.phase = "Crashed", !.renames_done = {}, !.unlocks_acked = {}]

\* Coordinator::crash
crash(c) ==
    [c EXCEPT !.phase = "Crashed", !.locks_acquired = {}, !.renames_done = {},
              !.unlocks_acked = {}]

\* faulty variant: recovery keeps the transaction id
recover_same_txn(c) ==
    [c EXCEPT !.phase = IF c.wal_committed THEN "Committed" ELSE "Cleanup",
              !.locks_acquired = {}, !.renames_done = {}, !.unlocks_acked = {}]

\* faulty variant: recovery resumes the commit whatever the write-ahead log says
recover_to_committed(c) ==
    [c EXCEPT !.current_txn_id = c.current_txn_id + 1,
              !.phase = "Committed",
              !.locks_acquired = {}, !.renames_done = {}, !.unlocks_acked = {}]

\* Coordinator::recover
recover(c) ==
    [c EXCEPT !.current_txn_id = c.current_txn_id + 1,
              !.phase = IF c.wal_committed THEN "Committed" ELSE "Cleanup",
              !.locks_acquired = {}, !.renames_done = {}, !.unlocks_acked = {}]


(* ========================= ExecSystem (system_v.rs) ========================= *)
\* ExecSystem::new : every store is KvStore::new() followed by put(key_a, initial_value)
stores_new == [s \in AllStores |-> put(store_new, key_a, initial_value).store]

\* store_handle_lock_req as a function of (stores, net): the new stores, the new
\* network and the value returned
handle_lock_req(sts, n, s, t) ==
    LET expected_msg == lock_req(s, t)
        lost == lose(n, expected_msg)
        store == update_txn_id(sts[s], t)
    IN  IF ~lost.result THEN [stores |-> sts, net |-> n, result |-> FALSE]
        ELSE IF is_stale_txn_id(sts[s], t)
        THEN [stores |-> sts, net |-> lost.net, result |-> TRUE]
        ELSE IF contains_key(store, key_aprime)
        THEN [stores |-> [sts EXCEPT ![s] = store],
              net |-> send(lost.net, lock_resp(s, FALSE, t)),
              result |-> TRUE]
        ELSE [stores |-> [sts EXCEPT ![s] = lock(lock(store, key_a), key_aprime)],
              net |-> send(lost.net, lock_resp(s, TRUE, t)),
              result |-> TRUE]

\* faulty variant: a request whose preconditions are not met is answered all the same
handle_rename_req_always_answers(sts, n, s, t) ==
    LET expected_msg == rename_req(s, t)
        lost == lose(n, expected_msg)
        store == update_txn_id(sts[s], t)
        key_aprime_exists == contains_key(store, key_aprime)
        key_a_locked == is_locked(store, key_a)
        key_aprime_locked == is_locked(store, key_aprime)
        key_a_exists == contains_key(store, key_a)
    IN  IF ~lost.result THEN [stores |-> sts, net |-> n, result |-> FALSE]
        ELSE IF is_stale_txn_id(sts[s], t)
        THEN [stores |-> sts, net |-> lost.net, result |-> TRUE]
        ELSE IF key_aprime_exists
        THEN [stores |-> [sts EXCEPT ![s] = store],
              net |-> send(lost.net, rename_resp(s, t)),
              result |-> TRUE]
        ELSE IF key_a_locked /\ key_aprime_locked /\ key_a_exists
        THEN [stores |-> [sts EXCEPT ![s] = rename(store, key_a, key_aprime).store],
              net |-> send(lost.net, rename_resp(s, t)),
              result |-> TRUE]
        ELSE [stores |-> [sts EXCEPT ![s] = store],
              net |-> send(lost.net, rename_resp(s, t)),
              result |-> TRUE]

\* store_handle_rename_req as a function of (stores, net)
handle_rename_req(sts, n, s, t) ==
    LET expected_msg == rename_req(s, t)
        lost == lose(n, expected_msg)
        store == update_txn_id(sts[s], t)
        key_aprime_exists == contains_key(store, key_aprime)
        key_a_locked == is_locked(store, key_a)
        key_aprime_locked == is_locked(store, key_aprime)
        key_a_exists == contains_key(store, key_a)
    IN  IF ~lost.result THEN [stores |-> sts, net |-> n, result |-> FALSE]
        ELSE IF is_stale_txn_id(sts[s], t)
        THEN [stores |-> sts, net |-> lost.net, result |-> TRUE]
        ELSE IF key_aprime_exists
        THEN [stores |-> [sts EXCEPT ![s] = store],
              net |-> send(lost.net, rename_resp(s, t)),
              result |-> TRUE]
        ELSE IF key_a_locked /\ key_aprime_locked /\ key_a_exists
        THEN [stores |-> [sts EXCEPT ![s] = rename(store, key_a, key_aprime).store],
              net |-> send(lost.net, rename_resp(s, t)),
              result |-> TRUE]
        ELSE [stores |-> [sts EXCEPT ![s] = store], net |-> lost.net, result |-> TRUE]

\* faulty variant: the unlock completes the rename on a store that still holds A
handle_unlock_req_renames(sts, n, s, t) ==
    LET expected_msg == unlock_req(s, t)
        lost == lose(n, expected_msg)
        store == update_txn_id(sts[s], t)
    IN  IF ~lost.result THEN [stores |-> sts, net |-> n, result |-> FALSE]
        ELSE IF is_stale_txn_id(sts[s], t)
        THEN [stores |-> sts, net |-> lost.net, result |-> TRUE]
        ELSE [stores |-> [sts EXCEPT ![s] =
                            unlock(unlock(rename(store, key_a, key_aprime).store, key_a),
                                   key_aprime)],
              net |-> send(lost.net, unlock_resp(s, t)),
              result |-> TRUE]

\* faulty variant: the unlock request of one store unlocks the keys of every store
handle_unlock_req_all_stores(sts, n, s, t) ==
    LET expected_msg == unlock_req(s, t)
        lost == lose(n, expected_msg)
    IN  IF ~lost.result THEN [stores |-> sts, net |-> n, result |-> FALSE]
        ELSE IF is_stale_txn_id(sts[s], t)
        THEN [stores |-> sts, net |-> lost.net, result |-> TRUE]
        ELSE [stores |-> [x \in AllStores |->
                            unlock(unlock(IF x = s THEN update_txn_id(sts[x], t) ELSE sts[x],
                                          key_a), key_aprime)],
              net |-> send(lost.net, unlock_resp(s, t)),
              result |-> TRUE]

\* store_handle_unlock_req as a function of (stores, net)
handle_unlock_req(sts, n, s, t) ==
    LET expected_msg == unlock_req(s, t)
        lost == lose(n, expected_msg)
        store == update_txn_id(sts[s], t)
    IN  IF ~lost.result THEN [stores |-> sts, net |-> n, result |-> FALSE]
        ELSE IF is_stale_txn_id(sts[s], t)
        THEN [stores |-> sts, net |-> lost.net, result |-> TRUE]
        ELSE [stores |-> [sts EXCEPT ![s] = unlock(unlock(store, key_a), key_aprime)],
              net |-> send(lost.net, unlock_resp(s, t)),
              result |-> TRUE]

\* coord_send_lock_req / coord_send_rename_req / coord_send_unlock_req as a function of
\* (coordinator, net): the new coordinator and the new network
coord_send(op, c, n, s) ==
    CASE op = "coord_send_lock_req" ->
            [coord |-> start_preparing(c),
             net |-> send(n, lock_req(s, start_preparing(c).current_txn_id))]
      [] op = "coord_send_rename_req" ->
            [coord |-> c, net |-> send(n, rename_req(s, c.current_txn_id))]
      [] op = "coord_send_unlock_req" ->
            [coord |-> c, net |-> send(n, unlock_req(s, c.current_txn_id))]

\* the phases in which the driver admits a coordinator send
send_enabled(op, c) ==
    CASE op = "coord_send_lock_req" -> c.phase \in {"Idle", "Preparing"}
      [] op = "coord_send_rename_req" -> c.phase = "Committed"
      [] op = "coord_send_unlock_req" -> c.phase = "Cleanup"

(* ------------- the happy-path schedule of the tests ------------- *)
\* one round: the operation applied to store 0, 1, ..., NumStores-1 in turn
round(op, t) == [i \in 1 .. NumStores |-> [op |-> op, store |-> i - 1, txn_id |-> t]]

\* test_happy_path / test_single_store_full_protocol / test_success_path_two_stores
happy_schedule ==
    round("coord_send_lock_req", 0) \o round("store_handle_lock_req", 1)
    \o round("coord_recv_lock_resp_success", 0)
    \o << [op |-> "coord_decide_commit", store |-> 0, txn_id |-> 0] >>
    \o round("coord_send_rename_req", 0) \o round("store_handle_rename_req", 1)
    \o round("coord_recv_rename_resp", 0)
    \o round("coord_send_unlock_req", 0) \o round("store_handle_unlock_req", 1)
    \o round("coord_recv_unlock_resp", 0)

\* the record of an invocation: operation, arguments (0 where it takes none), return
\* value (TRUE for the operations that return nothing); the arguments are kept only
\* when the invocation returned true
call(op, s, t, r) ==
    [op |-> op, store |-> IF r THEN s ELSE 0, txn_id |-> IF r THEN t ELSE 0, result |-> r]

\* the schedule advances when the invocation is its next entry and returned true
happy_next(h, c) ==
    IF h >= 0 /\ h < Len(happy_schedule)
       /\ happy_schedule[h + 1] = [op |-> c.op, store |-> c.store, txn_id |-> c.txn_id]
       /\ c.result
    THEN h + 1 ELSE -1

Record(op, s, t, r) ==
    /\ last' = call(op, s, t, r)
    /\ happy' = happy_next(happy, call(op, s, t, r))

(* ---------------------------- initial state ---------------------------- *)
Init ==
    /\ coord = coord_new
    /\ stores = stores_new
    /\ net = net_new
    /\ last = call("new", 0, 0, TRUE)
    /\ happy = 0

(* ------------------ coordinator -> network (send) ------------------ *)
coord_send_lock_req ==
    \E s \in AllStores :
        /\ coord.phase \in {"Idle", "Preparing"}
        /\ len(net) < MaxNet
        /\ coord' = start_preparing(coord)
        /\ net' = send(net, lock_req(s, start_preparing(coord).current_txn_id))
        /\ Record("coord_send_lock_req", s, 0, TRUE)
        /\ UNCHANGED stores

coord_send_rename_req ==
    \E s \in AllStores :
        /\ coord.phase = "Committed"
        /\ len(net) < MaxNet
        /\ net' = send(net, rename_req(s, coord.current_txn_id))
        /\ Record("coord_send_rename_req", s, 0, TRUE)
        /\ UNCHANGED <<coord, stores>>

coord_send_unlock_req ==
    \E s \in AllStores :
        /\ coord.phase = "Cleanup"
        /\ len(net) < MaxNet
        /\ net' = send(net, unlock_req(s, coord.current_txn_id))
        /\ Record("coord_send_unlock_req", s, 0, TRUE)
        /\ UNCHANGED <<coord, stores>>

(* ------------------ network -> coordinator (receive) ------------------ *)
coord_recv_lock_resp_success ==
    \E s \in StoreIds :
        /\ coord.phase = "Preparing"
        /\ s \notin coord.locks_acquired
        /\ LET lost == lose(net, lock_resp(s, TRUE, coord.current_txn_id)) IN
            /\ net' = lost.net
            /\ coord' = IF lost.result THEN record_lock_success(coord, s) ELSE coord
            /\ Record("coord_recv_lock_resp_success", s, 0, lost.result)
        /\ UNCHANGED stores

coord_recv_lock_resp_failure ==
    \E s \in StoreIds :
        /\ coord.phase = "Preparing"
        /\ LET lost == lose(net, lock_resp(s, FALSE, coord.current_txn_id)) IN
            /\ net' = lost.net
            /\ coord' = IF lost.result THEN handle_lock_failure(coord) ELSE coord
            /\ Record("coord_recv_lock_resp_failure", s, 0, lost.result)
        /\ UNCHANGED stores

coord_decide_commit ==
    /\ coord.phase = "Preparing"
    /\ coord' = decide_commit(coord)
    /\ Record("coord_decide_commit", 0, 0, TRUE)
    /\ UNCHANGED <<stores, net>>

coord_recv_rename_resp ==
    \E s \in StoreIds :
        /\ coord.phase = "Committed"
        /\ s \notin coord.renames_done
        /\ LET lost == lose(net, rename_resp(s, coord.current_txn_id)) IN
            /\ net' = lost.net
            /\ coord' = IF lost.result THEN record_rename_done(coord, s, NumStores) ELSE coord
            /\ Record("coord_recv_rename_resp", s, 0, lost.result)
        /\ UNCHANGED stores

coord_recv_unlock_resp ==
    \E s \in StoreIds :
        /\ coord.phase = "Cleanup"
        /\ s \notin coord.unlocks_acked
        /\ LET lost == lose(net, unlock_resp(s, coord.current_txn_id)) IN
            /\ net' = lost.net
            /\ coord' = IF lost.result THEN record_unlock_acked(coord, s, NumStores) ELSE coord
            /\ Record("coord_recv_unlock_resp", s, 0, lost.result)
        /\ UNCHANGED stores

(* --------------------- network -> store (handle) --------------------- *)
\* the (store, txn_id) arguments a caller of a handler passes: those of every request
\* of that kind in flight to a valid store, and one pair whose request is not in flight
\* (it stands for every such pair)
absent_args(kind) ==
    {a \in AllStores \X TxnIds :
        ~contains(net, [type |-> kind, store |-> a[1], txn_id |-> a[2]])}

handler_inputs(kind) ==
    {<<m.store, m.txn_id>> :
        m \in {x \in BagToSet(net) : x.type = kind /\ x.store \in AllStores}}
    \cup (IF absent_args(kind) = {} THEN {}
          ELSE {CHOOSE a \in absent_args(kind) : TRUE})

store_handle_lock_req ==
    \E a \in handler_inputs("LockReq") :
        /\ LET r == handle_lock_req(stores, net, a[1], a[2]) IN
            /\ stores' = r.stores
            /\ net' = r.net
            /\ Record("store_handle_lock_req", a[1], a[2], r.result)
        /\ UNCHANGED coord

store_handle_rename_req ==
    \E a \in handler_inputs("RenameReq") :
        /\ LET r == handle_rename_req(stores, net, a[1], a[2]) IN
            /\ stores' = r.stores
            /\ net' = r.net
            /\ Record("store_handle_rename_req", a[1], a[2], r.result)
        /\ UNCHANGED coord

store_handle_unlock_req ==
    \E a \in handler_inputs("UnlockReq") :
        /\ LET r == handle_unlock_req(stores, net, a[1], a[2]) IN
            /\ stores' = r.stores
            /\ net' = r.net
            /\ Record("store_handle_unlock_req", a[1], a[2], r.result)
        /\ UNCHANGED coord

(* ------------------------- environment ------------------------- *)
\* a message that is never in flight (no send carries a store id past the end): it
\* stands for every message the caller may name that is not in the network
absent_msg == lock_req(NumStores, 1)

\* the messages a caller of net_lose / net_duplicate names: each one in flight, and
\* one that is not
net_inputs == BagToSet(net) \cup {absent_msg}

net_lose ==
    \E m \in net_inputs :
        /\ net' = lose(net, m).net
        /\ Record("net_lose", m.store, m.txn_id, lose(net, m).result)
        /\ UNCHANGED <<coord, stores>>

net_duplicate ==
    \E m \in net_inputs :
        /\ len(net) < MaxNet
        /\ net' = duplicate(net, m).net
        /\ Record("net_duplicate", m.store, m.txn_id, duplicate(net, m).result)
        /\ UNCHANGED <<coord, stores>>

(* ---------------------- coordinator crash / recovery ---------------------- *)
coord_crash ==
    /\ can_crash(coord.phase)
    /\ coord' = crash(coord)
    /\ Record("coord_crash", 0, 0, TRUE)
    /\ UNCHANGED <<stores, net>>

coord_recover ==
    /\ coord.phase = "Crashed"
    /\ coord.current_txn_id < MaxTxn
    /\ coord' = recover(coord)
    /\ Record("coord_recover", 0, 0, TRUE)
    /\ UNCHANGED <<stores, net>>

Next ==
    \/ coord_send_lock_req
    \/ coord_send_rename_req
    \/ coord_send_unlock_req
    \/ coord_recv_lock_resp_success
    \/ coord_recv_lock_resp_failure
    \/ coord_decide_commit
    \/ coord_recv_rename_resp
    \/ coord_recv_unlock_resp
    \/ store_handle_lock_req
    \/ store_handle_rename_req
    \/ store_handle_unlock_req
    \/ net_lose
    \/ net_duplicate
    \/ coord_crash
    \/ coord_recover

Spec == Init /\ [][Next]_vars

(* ---------------- the driver with its testing operation store_put ---------------- *)
\* ExecSystem::store_put, called as test_lock_failure calls it: put(key_aprime, put_value)
\* on a valid store (KvStore::put refuses a locked key; the driver drops its result)
store_put ==
    \E s \in AllStores :
        /\ stores' = [stores EXCEPT ![s] = put(stores[s], key_aprime, put_value).store]
        /\ Record("store_put", s, 0, TRUE)
        /\ UNCHANGED <<coord, net>>

NextWithPut == Next \/ store_put

SpecWithPut == Init /\ [][NextWithPut]_vars

(* ---------------- ExecNetwork driven directly (network_tests.rs) ---------------- *)
\* the methods of ExecNetwork applied to the network of a new system, with any message
\* as argument; the record of the invocation keeps the method and its return value
network_send ==
    \E m \in Messages :
        /\ len(net) < MaxNet
        /\ net' = send(net, m)
        /\ Record("network_send", 0, 0, TRUE)
        /\ UNCHANGED <<coord, stores>>

network_receive ==
    \E m \in Messages :
        /\ net' = receive(net, m).net
        /\ Record("network_receive", 0, 0, receive(net, m).result # << >>)
        /\ UNCHANGED <<coord, stores>>

network_lose ==
    \E m \in Messages :
        /\ net' = lose(net, m).net
        /\ Record("network_lose", 0, 0, lose(net, m).result)
        /\ UNCHANGED <<coord, stores>>

network_duplicate ==
    \E m \in Messages :
        /\ len(net) < MaxNet
        /\ net' = duplicate(net, m).net
        /\ Record("network_duplicate", 0, 0, duplicate(net, m).result)
        /\ UNCHANGED <<coord, stores>>

NetNext == network_send \/ network_receive \/ network_lose \/ network_duplicate

NetSpec == Init /\ [][NetNext]_vars

(* ---------------- the driver under a fair schedule ---------------- *)
\* crash, taken only while a recovery is still possible within MaxTxn: the coordinator
\* crashes finitely often and every crash can be followed by a recovery
coord_crash_recoverable ==
    /\ coord.current_txn_id < MaxTxn
    /\ coord_crash

\* a response that a coord_recv_* of the current or a later state can still consume:
\* it carries the current txn id, the phase is the one its receive requires and its
\* store is not yet recorded
consumable(m) ==
    /\ m.txn_id = coord.current_txn_id
    /\ CASE m.type = "LockResp" ->
               coord.phase = "Preparing" /\ (m.success => m.store \notin coord.locks_acquired)
         [] m.type = "RenameResp" ->
               coord.phase = "Committed" /\ m.store \notin coord.renames_done
         [] m.type = "UnlockResp" ->
               coord.phase = "Cleanup" /\ m.store \notin coord.unlocks_acked
         [] OTHER -> TRUE

\* net_lose applied to a response that no receive can consume any more; these are the
\* only losses of the fair schedule, so no copy of a message that is still needed is
\* lost and the bounded network is not filled for ever by dead responses
net_lose_unconsumable ==
    \E m \in BagToSet(net) :
        /\ ~consumable(m)
        /\ net' = lose(net, m).net
        /\ Record("net_lose", m.store, m.txn_id, lose(net, m).result)
        /\ UNCHANGED <<coord, stores>>

LiveNext ==
    \/ coord_send_lock_req
    \/ coord_send_rename_req
    \/ coord_send_unlock_req
    \/ coord_recv_lock_resp_success
    \/ coord_recv_lock_resp_failure
    \/ coord_decide_commit
    \/ coord_recv_rename_resp
    \/ coord_recv_unlock_resp
    \/ store_handle_lock_req
    \/ store_handle_rename_req
    \/ store_handle_unlock_req
    \/ net_lose_unconsumable
    \/ coord_crash_recoverable
    \/ coord_recover

\* the step is an invocation for store s that returned true
served(s) == last'.result /\ last'.store = s

\* every send to a store is taken again and again while its phase lasts (a send is
\* disabled only while the bounded network is full); a request in the network is
\* handled, a consumable response is received and a dead response is dropped; the
\* coordinator decides when it can and recovers when it has crashed; crashes are under
\* no obligation
LiveFairness ==
    /\ \A s \in AllStores :
          /\ SF_vars(coord_send_lock_req /\ served(s))
          /\ SF_vars(coord_send_rename_req /\ served(s))
          /\ SF_vars(coord_send_unlock_req /\ served(s))
          /\ WF_vars(store_handle_lock_req /\ served(s))
          /\ WF_vars(store_handle_rename_req /\ served(s))
          /\ WF_vars(store_handle_unlock_req /\ served(s))
          /\ WF_vars(coord_recv_lock_resp_success /\ served(s))
          /\ WF_vars(coord_recv_lock_resp_failure /\ served(s))
          /\ WF_vars(coord_recv_rename_resp /\ served(s))
          /\ WF_vars(coord_recv_unlock_resp /\ served(s))
    /\ WF_vars(net_lose_unconsumable)
    /\ WF_vars(coord_decide_commit)
    /\ WF_vars(coord_recover)

LiveSpec == Init /\ [][LiveNext]_vars /\ LiveFairness

(* ------------- the specification layer (kv_store_s.rs, system_s.rs) ------------- *)
\* View for KvStore : the KvStoreSpec of a KvStore (locked_keys is the key set of the
\* `locked` map)
view(st) ==
    [data |-> st.data, locked_keys |-> st.locked, last_seen_txn_id |-> st.last_seen_txn_id]

\* the abstract stores of the driver's Vec<KvStore>
stores_view(sts) == [s \in DOMAIN sts |-> view(sts[s])]

\* KvStoreSpec::is_stale_txn_id
KvStoreSpec_is_stale_txn_id(st, t) == t < st.last_seen_txn_id

\* KvStoreSpec::update_txn_id
KvStoreSpec_update_txn_id(st, t) ==
    [data |-> st.data, locked_keys |-> st.locked_keys,
     last_seen_txn_id |-> IF t > st.last_seen_txn_id THEN t ELSE st.last_seen_txn_id]

\* KvStoreSpec::contains_key
KvStoreSpec_contains_key(st, k) == k \in DOMAIN st.data

\* KvStoreSpec::is_locked
KvStoreSpec_is_locked(st, k) == k \in st.locked_keys

\* KvStoreSpec::lock
KvStoreSpec_lock(st, k) == [st EXCEPT !.locked_keys = st.locked_keys \cup {k}]

\* KvStoreSpec::unlock
KvStoreSpec_unlock(st, k) == [st EXCEPT !.locked_keys = st.locked_keys \ {k}]

\* KvStoreSpec::rename (used where old_key is in data)
KvStoreSpec_rename(st, old, new) ==
    [st EXCEPT !.data = map_insert(map_remove(st.data, old), new, st.data[old])]

\* NetworkSpec::send / NetworkSpec::lose on the multiset of messages
NetworkSpec_send(n, m) == n (+) SetToBag({m})
NetworkSpec_lose(n, m) == n (-) SetToBag({m})

\* SystemSpec::store_handle_lock_req : the new abstract stores and network
SystemSpec_store_handle_lock_req(sts, n, s, t) ==
    LET net1 == NetworkSpec_lose(n, lock_req(s, t))
        st0 == sts[s]
        st1 == KvStoreSpec_update_txn_id(st0, t)
    IN  IF KvStoreSpec_is_stale_txn_id(st0, t)
        THEN [stores |-> sts, net |-> net1]
        ELSE IF KvStoreSpec_contains_key(st1, key_aprime)
        THEN [stores |-> [sts EXCEPT ![s] = st1],
              net |-> NetworkSpec_send(net1, lock_resp(s, FALSE, t))]
        ELSE [stores |-> [sts EXCEPT ![s] = KvStoreSpec_lock(KvStoreSpec_lock(st1, key_a),
                                                             key_aprime)],
              net |-> NetworkSpec_send(net1, lock_resp(s, TRUE, t))]

\* SystemSpec::store_handle_rename_req
SystemSpec_store_handle_rename_req(sts, n, s, t) ==
    LET net1 == NetworkSpec_lose(n, rename_req(s, t))
        st0 == sts[s]
        st1 == KvStoreSpec_update_txn_id(st0, t)
    IN  IF KvStoreSpec_is_stale_txn_id(st0, t)
        THEN [stores |-> sts, net |-> net1]
        ELSE IF KvStoreSpec_contains_key(st1, key_aprime)
        THEN [stores |-> [sts EXCEPT ![s] = st1],
              net |-> NetworkSpec_send(net1, rename_resp(s, t))]
        ELSE IF /\ KvStoreSpec_is_locked(st1, key_a)
                /\ KvStoreSpec_is_locked(st1, key_aprime)
                /\ KvStoreSpec_contains_key(st1, key_a)
        THEN [stores |-> [sts EXCEPT ![s] = KvStoreSpec_rename(st1, key_a, key_aprime)],
              net |-> NetworkSpec_send(net1, rename_resp(s, t))]
        ELSE [stores |-> [sts EXCEPT ![s] = st1], net |-> net1]

\* SystemSpec::store_handle_unlock_req
SystemSpec_store_handle_unlock_req(sts, n, s, t) ==
    LET net1 == NetworkSpec_lose(n, unlock_req(s, t))
        st0 == sts[s]
        st1 == KvStoreSpec_update_txn_id(st0, t)
    IN  IF KvStoreSpec_is_stale_txn_id(st0, t)
        THEN [stores |-> sts, net |-> net1]
        ELSE [stores |-> [sts EXCEPT ![s] = KvStoreSpec_unlock(KvStoreSpec_unlock(st1, key_a),
                                                               key_aprime)],
              net |-> NetworkSpec_send(net1, unlock_resp(s, t))]

(* ---------------- KvStore driven directly (kv_store_tests.rs) ---------------- *)
\* the methods of KvStore applied to one store that starts as KvStore::new(), with the
\* two keys of the protocol and two values as arguments; the store is kept in stores[0]
Keys == {key_a, key_aprime}
Values == {initial_value, put_value}

KvInit ==
    /\ coord = coord_new
    /\ stores = [s \in AllStores |-> store_new]
    /\ net = net_new
    /\ last = call("KvStore::new", 0, 0, TRUE)
    /\ happy = 0

kv_put ==
    \E k \in Keys, v \in Values :
        /\ stores' = [stores EXCEPT ![0] = put(stores[0], k, v).store]
        /\ Record("kv_put", 0, 0, put(stores[0], k, v).result)
        /\ UNCHANGED <<coord, net>>

kv_delete ==
    \E k \in Keys :
        /\ stores' = [stores EXCEPT ![0] = delete(stores[0], k).store]
        /\ Record("kv_delete", 0, 0, delete(stores[0], k).result)
        /\ UNCHANGED <<coord, net>>

kv_lock ==
    \E k \in Keys :
        /\ stores' = [stores EXCEPT ![0] = lock(stores[0], k)]
        /\ Record("kv_lock", 0, 0, TRUE)
        /\ UNCHANGED <<coord, net>>

kv_unlock ==
    \E k \in Keys :
        /\ stores' = [stores EXCEPT ![0] = unlock(stores[0], k)]
        /\ Record("kv_unlock", 0, 0, TRUE)
        /\ UNCHANGED <<coord, net>>

\* KvStore::rename requires both keys locked and different
kv_rename ==
    \E old \in Keys, new \in Keys :
        /\ old # new
        /\ is_locked(stores[0], old)
        /\ is_locked(stores[0], new)
        /\ stores' = [stores EXCEPT ![0] = rename(stores[0], old, new).store]
        /\ Record("kv_rename", 0, 0, rename(stores[0], old, new).result # << >>)
        /\ UNCHANGED <<coord, net>>

kv_update_txn_id ==
    \E t \in TxnIds :
        /\ stores' = [stores EXCEPT ![0] = update_txn_id(stores[0], t)]
        /\ Record("kv_update_txn_id", 0, 0, TRUE)
        /\ UNCHANGED <<coord, net>>

KvNext == kv_put \/ kv_delete \/ kv_lock \/ kv_unlock \/ kv_rename \/ kv_update_txn_id

KvSpec == KvInit /\ [][KvNext]_vars

(* ============================== properties ============================== *)
HandlerOps == {"store_handle_lock_req", "store_handle_rename_req", "store_handle_unlock_req"}

\* the request a handler consumes
request_of(op, s, t) ==
    CASE op = "store_handle_lock_req" -> lock_req(s, t)
      [] op = "store_handle_rename_req" -> rename_req(s, t)
      [] op = "store_handle_unlock_req" -> unlock_req(s, t)

\* what a handler computes from the current stores and network
handled(op, s, t) ==
    CASE op = "store_handle_lock_req" -> handle_lock_req(stores, net, s, t)
      [] op = "store_handle_rename_req" -> handle_rename_req(stores, net, s, t)
      [] op = "store_handle_unlock_req" -> handle_unlock_req(stores, net, s, t)

Max(a, b) == IF a >= b THEN a ELSE b

has_a(s) == contains_key(stores[s], key_a)
has_aprime(s) == contains_key(stores[s], key_aprime)

\* C1 (data accessibility): in every state reachable from ExecSystem::new, every
\* store's data holds exactly one of A and A'.
C1_DataAccessible ==
    \A s \in AllStores : (has_a(s) /\ ~has_aprime(s)) \/ (~has_a(s) /\ has_aprime(s))

\* a rename handler has just moved the value on one store while another still holds A
C1_Witness ==
    /\ last.op = "store_handle_rename_req" /\ last.result
    /\ has_aprime(last.store) /\ ~has_a(last.store)
    /\ \E s \in AllStores : has_a(s)

\* C2 (Committed => WAL): phase = Committed implies wal_committed, whether Committed
\* was entered by decide_commit or by recover.
C2_CommittedImpliesWal == coord.phase = "Committed" => coord.wal_committed

\* Committed has just been re-entered by recover (decide_commit came before the crash)
C2_Witness ==
    last.op = "coord_recover" /\ coord.phase = "Committed" /\ coord.wal_committed

\* C3 (staleness rejection): a handler invoked for store s with a request that is in
\* the network and whose txn_id is strictly less than s.last_seen_txn_id returns true,
\* removes one copy of that request, sends no response and leaves every store unchanged.
C3_StaleRequestDropped ==
    [][ \A op \in HandlerOps, s \in AllStores, t \in TxnIds :
          (t < stores[s].last_seen_txn_id /\ contains(net, request_of(op, s, t))) =>
            /\ handled(op, s, t).result = TRUE
            /\ (last' = call(op, s, t, TRUE)) =>
                 /\ stores' = stores
                 /\ net' = net (-) SetToBag({request_of(op, s, t)})
                 /\ len(net') = len(net) - 1 ]_vars

\* a handler has just consumed a request strictly older than the store's last_seen_txn_id
C3_Witness ==
    /\ last.op \in HandlerOps /\ last.result
    /\ last.txn_id < stores[last.store].last_seen_txn_id

\* C4 (strictly older): is_stale_txn_id(t) is true iff t < last_seen_txn_id, so a
\* request whose txn_id equals the store's last_seen_txn_id is processed, not dropped:
\* a lock or unlock request of that id, when in the network, is answered.
C4_StaleIffStrictlyOlder ==
    \A s \in AllStores, t \in TxnIds :
        /\ is_stale_txn_id(stores[s], t) <=> (t < stores[s].last_seen_txn_id)
        /\ (t = stores[s].last_seen_txn_id /\ contains(net, unlock_req(s, t))) =>
              count(handle_unlock_req(stores, net, s, t).net, unlock_resp(s, t))
                  = count(net, unlock_resp(s, t)) + 1

\* C5 (monotonic txn id): current_txn_id starts at 1, never decreases across a step, is
\* changed only by recover, is kept by crash, and is strictly greater after the recover
\* that ends a crash than it was before.
C5_TxnIdMonotonic ==
    /\ coord.current_txn_id = 1
    /\ [][ /\ coord'.current_txn_id >= coord.current_txn_id
           /\ (coord'.current_txn_id # coord.current_txn_id) => last'.op = "coord_recover"
           /\ (last'.op = "coord_crash") => coord'.current_txn_id = coord.current_txn_id
           /\ (coord.phase = "Crashed" /\ coord'.phase # "Crashed") =>
                 coord'.current_txn_id > coord.current_txn_id ]_vars

\* the coordinator has crashed and recovered
C5_Witness == last.op = "coord_recover" /\ coord.current_txn_id = 2

\* C6 (store txn id monotonic): last_seen_txn_id of every store never decreases across a
\* step; a handled request with txn_id t that is not older than last_seen_txn_id leaves
\* it at max(last_seen_txn_id, t); update_txn_id(t) yields max(last_seen_txn_id, t) and
\* changes neither data nor the locked keys.
C6_LastSeenMonotonic ==
    [][ /\ \A s \in AllStores :
              stores'[s].last_seen_txn_id >= stores[s].last_seen_txn_id
        /\ \A op \in HandlerOps, s \in AllStores, t \in TxnIds :
              (last' = call(op, s, t, TRUE) /\ t >= stores[s].last_seen_txn_id) =>
                  stores'[s].last_seen_txn_id = Max(stores[s].last_seen_txn_id, t)
        /\ \A s \in AllStores, t \in 0 .. MaxTxn :
              /\ update_txn_id(stores[s], t).last_seen_txn_id
                    = Max(stores[s].last_seen_txn_id, t)
              /\ update_txn_id(stores[s], t).data = stores[s].data
              /\ update_txn_id(stores[s], t).locked = stores[s].locked ]_vars

\* a handler has just raised a store's last_seen_txn_id from 1 to 2
C6_Witness ==
    /\ last.op \in HandlerOps /\ last.result /\ last.txn_id = 2
    /\ stores[last.store].last_seen_txn_id = 2
    /\ stores[last.store].locked # {}

\* C7 (no ghost holdings): locks_acquired, renames_done and unlocks_acked hold only
\* store ids of AllStores.
C7_NoGhostHoldings ==
    /\ coord.locks_acquired \subseteq AllStores
    /\ coord.renames_done \subseteq AllStores
    /\ coord.unlocks_acked \subseteq AllStores

\* the coordinator has just recorded the lock of the last store
C7_Witness ==
    last.op = "coord_recv_lock_resp_success" /\ coord.locks_acquired = AllStores

\* whether the next entry of the happy-path schedule can be executed and returns true
step_ok(e) ==
    LET t == coord.current_txn_id IN
    CASE e.op = "coord_send_lock_req" -> coord.phase \in {"Idle", "Preparing"}
      [] e.op = "coord_send_rename_req" -> coord.phase = "Committed"
      [] e.op = "coord_send_unlock_req" -> coord.phase = "Cleanup"
      [] e.op = "coord_decide_commit" -> coord.phase = "Preparing"
      [] e.op \in HandlerOps -> handled(e.op, e.store, e.txn_id).result
      [] e.op = "coord_recv_lock_resp_success" ->
            /\ coord.phase = "Preparing" /\ e.store \notin coord.locks_acquired
            /\ lose(net, lock_resp(e.store, TRUE, t)).result
      [] e.op = "coord_recv_rename_resp" ->
            /\ coord.phase = "Committed" /\ e.store \notin coord.renames_done
            /\ lose(net, rename_resp(e.store, t)).result
      [] e.op = "coord_recv_unlock_resp" ->
            /\ coord.phase = "Cleanup" /\ e.store \notin coord.unlocks_acked
            /\ lose(net, unlock_resp(e.store, t)).result

\* C8 (happy path): from ExecSystem::new the crash-free, loss-free schedule can be
\* executed step by step, every handle and receive returning true, and it ends with
\* phase = Done.
C8_HappyPathRuns ==
    /\ (happy >= 0 /\ happy < Len(happy_schedule)) => step_ok(happy_schedule[happy + 1])
    /\ (happy = Len(happy_schedule)) => coord.phase = "Done"

\* C9 (completed commit): in every state with phase = Done and wal_committed, every
\* store holds A' and does not hold A.
C9_DoneCommittedRenamed ==
    (coord.phase = "Done" /\ coord.wal_committed) =>
        \A s \in AllStores : has_aprime(s) /\ ~has_a(s)

\* the case C9 is about: a committed transaction whose cleanup has completed
C9_DoneCommitted == coord.phase = "Done" /\ coord.wal_committed

\* C10 (unanimous consent): decide_commit is taken only in a state where
\* locks_acquired equals AllStores (decide_commit leaves locks_acquired as it was).
C10_CommitOnlyWithAllLocks ==
    last.op = "coord_decide_commit" => coord.locks_acquired = AllStores

\* what a handler computes from given stores and network
handle(op, sts, n, s, t) ==
    CASE op = "store_handle_lock_req" -> handle_lock_req(sts, n, s, t)
      [] op = "store_handle_rename_req" -> handle_rename_req(sts, n, s, t)
      [] op = "store_handle_unlock_req" -> handle_unlock_req(sts, n, s, t)

\* the result of invoking the handler twice in a row with the same arguments
handle_twice(op, s, t) ==
    LET first == handle(op, stores, net, s, t) IN
    [first |-> first, second |-> handle(op, first.stores, first.net, s, t)]

\* C11 (duplicated LockReq): when the coordinator's LockReq{s, t} is in the network
\* twice, store s does not hold A' and has not seen t, and no LockResp{s, true, t} is in
\* the network, two invocations of store_handle_lock_req(s, t) both return true and
\* leave exactly two copies of LockResp{s, success = true, t} in the network.
C11_DuplicateLockReqTwoResponses ==
    \A s \in AllStores :
        LET t == coord.current_txn_id
            r == handle_twice("store_handle_lock_req", s, t)
        IN  (/\ count(net, lock_req(s, t)) = 2
             /\ ~has_aprime(s)
             /\ stores[s].last_seen_txn_id < t
             /\ count(net, lock_resp(s, TRUE, t)) = 0) =>
                /\ r.first.result
                /\ r.second.result
                /\ count(r.second.net, lock_resp(s, TRUE, t)) = 2

\* C12 (idempotent duplicate delivery): for each handler, when a request whose txn_id
\* is not older than the store's last_seen_txn_id is in the network twice and is
\* delivered twice, the store after the second delivery equals the store after the
\* first; a second RenameReq that finds A' present renames nothing and adds one
\* RenameResp.
C12_DuplicateDeliveryIdempotent ==
    \A op \in HandlerOps, s \in AllStores, t \in TxnIds :
        LET r == handle_twice(op, s, t) IN
        (count(net, request_of(op, s, t)) >= 2 /\ t >= stores[s].last_seen_txn_id) =>
            /\ r.first.result
            /\ r.second.result
            /\ r.second.stores[s] = r.first.stores[s]
            /\ (op = "store_handle_rename_req"
                    /\ contains_key(r.first.stores[s], key_aprime)) =>
                  /\ r.second.stores[s].data = r.first.stores[s].data
                  /\ count(r.second.net, rename_resp(s, t))
                        = count(r.first.net, rename_resp(s, t)) + 1

\* C13 (crash): crash is enabled only in Preparing, Committed and Cleanup; the crash
\* step sets phase to Crashed, empties the three volatile sets and leaves
\* current_txn_id, wal_committed, every store and the network unchanged.
C13_CrashEffect ==
    /\ \A p \in Phases : can_crash(p) <=> p \in {"Preparing", "Committed", "Cleanup"}
    /\ [][ (last'.op = "coord_crash") =>
             /\ coord.phase \in {"Preparing", "Committed", "Cleanup"}
             /\ coord'.phase = "Crashed"
             /\ coord'.locks_acquired = {}
             /\ coord'.renames_done = {}
             /\ coord'.unlocks_acked = {}
             /\ coord'.current_txn_id = coord.current_txn_id
             /\ coord'.wal_committed = coord.wal_committed
             /\ stores' = stores
             /\ net' = net ]_vars

\* the coordinator has just crashed after the commit, with a store locked and a
\* message in flight
C13_Witness ==
    /\ last.op = "coord_crash" /\ coord.phase = "Crashed" /\ coord.wal_committed
    /\ net # EmptyBag
    /\ \E s \in AllStores : stores[s].locked # {}

\* C14 (recover): recover is enabled only in Crashed; the recover step adds exactly 1
\* to current_txn_id, leaves wal_committed unchanged, leaves the three volatile sets
\* empty and sets phase to Committed if wal_committed and to Cleanup otherwise.
C14_RecoverEffect ==
    [][ (last'.op = "coord_recover") =>
          /\ coord.phase = "Crashed"
          /\ coord'.current_txn_id = coord.current_txn_id + 1
          /\ coord'.wal_committed = coord.wal_committed
          /\ coord'.locks_acquired = {}
          /\ coord'.renames_done = {}
          /\ coord'.unlocks_acked = {}
          /\ coord'.phase = IF coord.wal_committed THEN "Committed" ELSE "Cleanup" ]_vars

\* the coordinator has just recovered from a crash that came before the commit
C14_Witness ==
    /\ last.op = "coord_recover" /\ coord.phase = "Cleanup" /\ ~coord.wal_committed
    /\ coord.current_txn_id = 2

\* C15 (lock failure aborts): a coord_recv_lock_resp_failure step that returns true
\* starts in Preparing, consumes one LockResp{s, success = false} of the current
\* txn id, moves to Cleanup, empties the three volatile sets and leaves current_txn_id
\* and wal_committed unchanged, wal_committed being false.
C15_LockFailureAborts ==
    [][ (last'.op = "coord_recv_lock_resp_failure" /\ last'.result) =>
          LET m == lock_resp(last'.store, FALSE, coord.current_txn_id) IN
          /\ coord.phase = "Preparing"
          /\ count(net, m) >= 1
          /\ net' = net (-) SetToBag({m})
          /\ coord'.phase = "Cleanup"
          /\ coord'.locks_acquired = {}
          /\ coord'.renames_done = {}
          /\ coord'.unlocks_acked = {}
          /\ coord'.current_txn_id = coord.current_txn_id
          /\ coord'.wal_committed = coord.wal_committed
          /\ coord'.wal_committed = FALSE ]_vars

\* the coordinator has just consumed a lock failure while another store holds its locks
C15_Witness ==
    /\ last.op = "coord_recv_lock_resp_failure" /\ last.result
    /\ coord.phase = "Cleanup" /\ ~coord.wal_committed
    /\ has_aprime(last.store)
    /\ \E s \in AllStores : s # last.store /\ stores[s].locked # {}

\* what C16 says of store_handle_lock_req(s, t) for a request in the network
lock_req_outcome(s, t) ==
    LET r == handle_lock_req(stores, net, s, t) IN
    /\ r.result
    /\ r.stores[s].data = stores[s].data
    /\ IF has_aprime(s)
       THEN /\ r.stores[s].locked = stores[s].locked
            /\ r.net = send(net (-) SetToBag({lock_req(s, t)}), lock_resp(s, FALSE, t))
       ELSE /\ r.stores[s].locked = stores[s].locked \cup {key_a, key_aprime}
            /\ r.net = send(net (-) SetToBag({lock_req(s, t)}), lock_resp(s, TRUE, t))

\* C16 (lock request branches): store_handle_lock_req on a LockReq that is in the
\* network and whose txn_id is not older than last_seen_txn_id leaves data unchanged
\* and, when the store holds A', emits LockResp{success = false} with the request's
\* txn id and locks nothing; when A' is absent it locks A and A' and emits
\* LockResp{success = true}.
C16_LockReqBranches ==
    \A s \in AllStores, t \in TxnIds :
        (contains(net, lock_req(s, t)) /\ t >= stores[s].last_seen_txn_id) =>
            lock_req_outcome(s, t)

\* the same for the requests the code takes for non-stale (txn_id strictly newer than
\* last_seen_txn_id)
LockReqBranchesNewer ==
    \A s \in AllStores, t \in TxnIds :
        (contains(net, lock_req(s, t)) /\ t > stores[s].last_seen_txn_id) =>
            lock_req_outcome(s, t)

\* the receive-style operations of the driver
CoordRecvOps ==
    {"coord_recv_lock_resp_success", "coord_recv_lock_resp_failure",
     "coord_recv_rename_resp", "coord_recv_unlock_resp"}

\* the message a coordinator receive for store s looks for
expected_msg(op, s) ==
    CASE op = "coord_recv_lock_resp_success" -> lock_resp(s, TRUE, coord.current_txn_id)
      [] op = "coord_recv_lock_resp_failure" -> lock_resp(s, FALSE, coord.current_txn_id)
      [] op = "coord_recv_rename_resp" -> rename_resp(s, coord.current_txn_id)
      [] op = "coord_recv_unlock_resp" -> unlock_resp(s, coord.current_txn_id)

\* C17 (no message, no change): a receive-style operation invoked when no matching
\* message is in the network returns false, and a receive-style step that returns
\* false leaves the coordinator, every store and the network unchanged.
C17_NoMessageNoChange ==
    [][ /\ (last'.op \in CoordRecvOps \cup HandlerOps /\ ~last'.result) =>
              (coord' = coord /\ stores' = stores /\ net' = net)
        /\ \A op \in HandlerOps, s \in AllStores, t \in TxnIds :
              ~contains(net, request_of(op, s, t)) =>
                  handled(op, s, t) = [stores |-> stores, net |-> net, result |-> FALSE]
        /\ \A op \in CoordRecvOps, s \in StoreIds :
              ~contains(net, expected_msg(op, s)) =>
                  lose(net, expected_msg(op, s)) = [net |-> net, result |-> FALSE] ]_vars

\* a handler has just returned false with other messages in flight
C17_Witness ==
    /\ last.op \in HandlerOps /\ ~last.result
    /\ net # EmptyBag
    /\ coord.phase = "Committed"

\* the responses a handler may send for a request
responses_of(op, s, t) ==
    CASE op = "store_handle_lock_req" -> {lock_resp(s, TRUE, t), lock_resp(s, FALSE, t)}
      [] op = "store_handle_rename_req" -> {rename_resp(s, t)}
      [] op = "store_handle_unlock_req" -> {unlock_resp(s, t)}

\* across the step, the count of m drops by exactly 1 and the count of every other
\* message is unchanged, except that one message of `added` may have one copy more
consumes_one(m, added) ==
    /\ count(net, m) >= 1
    /\ count(net', m) = count(net, m) - 1
    /\ \A x \in (BagToSet(net) \cup BagToSet(net')) \ {m} :
          \/ count(net', x) = count(net, x)
          \/ x \in added /\ count(net', x) = count(net, x) + 1
    /\ len(net') \in {len(net) - 1, len(net)}

\* C18 (exactly one copy consumed): every store handler step and every coordinator
\* receive step that returns true lowers the count of the message it matched by
\* exactly 1 and changes the count of no other message, except for the single response
\* a handler may add.
C18_ConsumesExactlyOne ==
    [][ /\ \A op \in HandlerOps, s \in AllStores, t \in TxnIds :
              (last' = call(op, s, t, TRUE)) =>
                  consumes_one(request_of(op, s, t), responses_of(op, s, t))
        /\ \A op \in CoordRecvOps, s \in StoreIds :
              (last' = call(op, s, 0, TRUE)) =>
                  consumes_one(expected_msg(op, s), {}) ]_vars

\* a handler has just consumed one of two copies of a request and answered it
C18_Witness ==
    /\ last.op \in HandlerOps /\ last.result
    /\ count(net, request_of(last.op, last.store, last.txn_id)) = 1
    /\ \E m \in responses_of(last.op, last.store, last.txn_id) : contains(net, m)

\* C19 (the network is a multiset): for every message m, send(m) raises count(m) by
\* exactly 1; lose(m) and duplicate(m) return true when count(m) >= 1, lowering and
\* raising count(m) by exactly 1, and otherwise return false and leave the network
\* unchanged; send followed by lose restores count(m), and two sends followed by
\* one lose leave count(m) + 1.
C19_NetworkMultiset ==
    \A m \in Messages :
        /\ count(send(net, m), m) = count(net, m) + 1
        /\ IF count(net, m) >= 1
           THEN /\ lose(net, m).result
                /\ count(lose(net, m).net, m) = count(net, m) - 1
                /\ duplicate(net, m).result
                /\ count(duplicate(net, m).net, m) = count(net, m) + 1
           ELSE /\ lose(net, m) = [net |-> net, result |-> FALSE]
                /\ duplicate(net, m) = [net |-> net, result |-> FALSE]
        /\ count(lose(send(net, m), m).net, m) = count(net, m)
        /\ count(lose(send(send(net, m), m), m).net, m) = count(net, m) + 1

\* duplicate has just returned true and the network holds two copies of a message
C19_Witness ==
    /\ last.op = "network_duplicate" /\ last.result
    /\ \E m \in BagToSet(net) : count(net, m) = 2

\* Two messages are equal iff all fields match: eq decides equality of messages
eq_is_equality == \A m1 \in Messages, m2 \in Messages : eq(m1, m2) <=> (m1 = m2)

\* C20 (distinct messages do not interfere): eq holds of two messages only when all
\* their fields match, and for messages m and m' that differ in kind, store, success
\* flag or txn_id, send(m), lose(m), receive(m) and duplicate(m) leave count(m')
\* unchanged.
C20_DistinctMessagesIndependent ==
    /\ eq_is_equality
    /\ \A m \in Messages, other \in Messages :
          (m # other) =>
              /\ count(send(net, m), other) = count(net, other)
              /\ count(lose(net, m).net, other) = count(net, other)
              /\ count(receive(net, m).net, other) = count(net, other)
              /\ count(duplicate(net, m).net, other) = count(net, other)

\* send has just added a message to a network that holds a different one
C20_Witness ==
    /\ last.op = "network_send"
    /\ Cardinality(BagToSet(net)) = 2

same_except(d1, d2, k) ==
    \A x \in Keys \ {k} :
        /\ (x \in DOMAIN d1) <=> (x \in DOMAIN d2)
        /\ (x \in DOMAIN d1) => d1[x] = d2[x]

\* C22 (put and delete on a locked key): put(k, v) and delete(k) return false exactly
\* when k is locked, and then leave data, the locked keys and last_seen_txn_id
\* unchanged; when k is not locked they return true, put maps k to v, delete removes
\* k, and nothing else (no other key, no lock, not last_seen_txn_id) changes.
C22_PutDeleteLockedNoop ==
    \A k \in Keys, v \in Values :
        LET st == stores[0]
            p == put(st, k, v)
            d == delete(st, k)
        IN  /\ p.result = (k \notin st.locked)
            /\ d.result = (k \notin st.locked)
            /\ p.store.locked = st.locked /\ d.store.locked = st.locked
            /\ p.store.last_seen_txn_id = st.last_seen_txn_id
            /\ d.store.last_seen_txn_id = st.last_seen_txn_id
            /\ IF k \in st.locked
               THEN p.store = st /\ d.store = st
               ELSE /\ k \in DOMAIN p.store.data /\ p.store.data[k] = v
                    /\ k \notin DOMAIN d.store.data
                    /\ same_except(p.store.data, st.data, k)
                    /\ same_except(d.store.data, st.data, k)

\* put or delete has just been refused on a locked key of a store that holds data and
\* has seen a transaction
C22_Witness ==
    /\ last.op \in {"kv_put", "kv_delete"} /\ ~last.result
    /\ stores[0].locked # {} /\ DOMAIN stores[0].data # {}
    /\ stores[0].last_seen_txn_id > 0

\* C23 (rename moves the value): rename(old, new) with old # new and both keys locked
\* returns the value of old when old is in data, and then new maps to that value and
\* old is absent; when old is not in data it returns none and data is unchanged; in
\* both cases the locked keys and last_seen_txn_id are unchanged.
C23_RenameMovesValue ==
    \A old \in Keys, new \in Keys :
        LET st == stores[0]
            r == rename(st, old, new)
        IN  (old # new /\ is_locked(st, old) /\ is_locked(st, new)) =>
                /\ r.store.locked = st.locked
                /\ r.store.last_seen_txn_id = st.last_seen_txn_id
                /\ IF old \in DOMAIN st.data
                   THEN /\ r.result = <<st.data[old]>>
                        /\ new \in DOMAIN r.store.data
                        /\ r.store.data[new] = st.data[old]
                        /\ old \notin DOMAIN r.store.data
                   ELSE /\ r.result = << >>
                        /\ r.store.data = st.data

\* rename has just moved a value on a store that has seen a transaction
C23_Witness ==
    /\ last.op = "kv_rename" /\ last.result
    /\ Cardinality(DOMAIN stores[0].data) = 1
    /\ stores[0].locked = Keys
    /\ stores[0].last_seen_txn_id > 0

\* C24 (rename responses): a coord_recv_rename_resp(s) step that returns true starts in
\* Committed with s not in renames_done, consumes a RenameResp{s, current_txn_id},
\* inserts s into renames_done and changes no other field but the phase, which becomes
\* Cleanup if and only if renames_done then equals AllStores and stays Committed
\* otherwise.
C24_RenameRespAdvances ==
    [][ (last'.op = "coord_recv_rename_resp" /\ last'.result) =>
          LET s == last'.store IN
          /\ coord.phase = "Committed"
          /\ s \notin coord.renames_done
          /\ count(net, rename_resp(s, coord.current_txn_id)) >= 1
          /\ net' = net (-) SetToBag({rename_resp(s, coord.current_txn_id)})
          /\ coord'.renames_done = coord.renames_done \cup {s}
          /\ (coord'.phase = "Cleanup") <=> (coord'.renames_done = AllStores)
          /\ (coord'.renames_done # AllStores) => coord'.phase = "Committed"
          /\ coord' = [coord EXCEPT !.renames_done = coord'.renames_done,
                                    !.phase = coord'.phase] ]_vars

\* the rename response of the last store has just moved the coordinator to Cleanup
C24_Witness ==
    /\ last.op = "coord_recv_rename_resp" /\ last.result
    /\ coord.phase = "Cleanup" /\ coord.renames_done = AllStores

\* the rename response of a first store has just been recorded
C24_WitnessStays ==
    /\ last.op = "coord_recv_rename_resp" /\ last.result
    /\ coord.phase = "Committed" /\ coord.renames_done # {}

\* C25 (unlock responses): a coord_recv_unlock_resp(s) step that returns true starts in
\* Cleanup with s not in unlocks_acked, consumes an UnlockResp{s, current_txn_id},
\* inserts s into unlocks_acked and changes no other field but the phase, which becomes
\* Done if and only if unlocks_acked then equals AllStores and stays Cleanup otherwise.
C25_UnlockRespAdvances ==
    [][ (last'.op = "coord_recv_unlock_resp" /\ last'.result) =>
          LET s == last'.store IN
          /\ coord.phase = "Cleanup"
          /\ s \notin coord.unlocks_acked
          /\ count(net, unlock_resp(s, coord.current_txn_id)) >= 1
          /\ net' = net (-) SetToBag({unlock_resp(s, coord.current_txn_id)})
          /\ coord'.unlocks_acked = coord.unlocks_acked \cup {s}
          /\ (coord'.phase = "Done") <=> (coord'.unlocks_acked = AllStores)
          /\ (coord'.unlocks_acked # AllStores) => coord'.phase = "Cleanup"
          /\ coord' = [coord EXCEPT !.unlocks_acked = coord'.unlocks_acked,
                                    !.phase = coord'.phase] ]_vars

\* the unlock response of the last store has just moved the coordinator to Done
C25_Witness ==
    /\ last.op = "coord_recv_unlock_resp" /\ last.result
    /\ coord.phase = "Done" /\ coord.unlocks_acked = AllStores

\* the request a coordinator send for store s adds
sent_req(op, s) ==
    CASE op = "coord_send_lock_req" -> lock_req(s, coord.current_txn_id)
      [] op = "coord_send_rename_req" -> rename_req(s, coord.current_txn_id)
      [] op = "coord_send_unlock_req" -> unlock_req(s, coord.current_txn_id)

CoordSendOps == {"coord_send_lock_req", "coord_send_rename_req", "coord_send_unlock_req"}

\* C26 (coordinator sends): every coordinator send step adds exactly one request with
\* the coordinator's current_txn_id to the network and changes no store;
\* send_rename_req is taken only in Committed and send_unlock_req only in Cleanup and
\* they change no coordinator field; send_lock_req is taken only in Idle or Preparing
\* and changes only the phase, to Preparing.
C26_SendFrame ==
    [][ \A op \in CoordSendOps :
          (last'.op = op) =>
              /\ net' = net (+) SetToBag({sent_req(op, last'.store)})
              /\ len(net') = len(net) + 1
              /\ sent_req(op, last'.store).txn_id = coord'.current_txn_id
              /\ stores' = stores
              /\ (op = "coord_send_rename_req") =>
                    (coord.phase = "Committed" /\ coord' = coord)
              /\ (op = "coord_send_unlock_req") =>
                    (coord.phase = "Cleanup" /\ coord' = coord)
              /\ (op = "coord_send_lock_req") =>
                    /\ coord.phase \in {"Idle", "Preparing"}
                    /\ coord' = [coord EXCEPT !.phase = "Preparing"] ]_vars

\* a lock request has just been sent by a coordinator that had already recorded a lock
C26_Witness ==
    /\ last.op = "coord_send_lock_req"
    /\ coord.phase = "Preparing" /\ coord.locks_acquired # {}
    /\ \E s \in AllStores : contains(net, lock_req(s, coord.current_txn_id))

\* the requests in the network that a store handler can be invoked for
handler_requests ==
    {m \in BagToSet(net) :
        m.type \in {"LockReq", "RenameReq", "UnlockReq"} /\ m.store \in AllStores}

\* the handler of a kind of request
handler_of(kind) ==
    CASE kind = "LockReq" -> "store_handle_lock_req"
      [] kind = "RenameReq" -> "store_handle_rename_req"
      [] kind = "UnlockReq" -> "store_handle_unlock_req"

\* one handler step after another, from the current stores and network
handle_then(op1, s1, t1, op2, s2, t2) ==
    LET first == handle(op1, stores, net, s1, t1) IN
    handle(op2, first.stores, first.net, s2, t2)

\* one coordinator send after another, from the current coordinator and network
send_then(op, s1, s2) ==
    LET first == coord_send(op, coord, net, s1) IN
    coord_send(op, first.coord, first.net, s2)

\* C27 (steps on distinct stores commute): for stores s1 # s2, a store handler step for
\* s1 followed by one for s2, each with its request in the network, gives the same
\* stores and the same network multiset as the opposite order (the handlers do not
\* touch the coordinator), and two coordinator sends of one phase to s1 and s2 give the
\* same coordinator and network multiset in both orders.
C27_DistinctStoresCommute ==
    /\ \A m1 \in handler_requests, m2 \in handler_requests :
          (m1.store # m2.store) =>
              LET op1 == handler_of(m1.type)
                  op2 == handler_of(m2.type)
                  one == handle_then(op1, m1.store, m1.txn_id, op2, m2.store, m2.txn_id)
                  other == handle_then(op2, m2.store, m2.txn_id, op1, m1.store, m1.txn_id)
              IN  /\ one.stores = other.stores
                  /\ one.net = other.net
                  /\ one.result
                  /\ other.result
    /\ \A op \in CoordSendOps, s1 \in AllStores, s2 \in AllStores :
          (s1 # s2 /\ send_enabled(op, coord)) =>
              /\ send_enabled(op, coord_send(op, coord, net, s1).coord)
              /\ send_then(op, s1, s2) = send_then(op, s2, s1)

\* a handler has just answered the request of one store while a request to another
\* store is still in the network
C27_Witness ==
    /\ last.op \in HandlerOps /\ last.result
    /\ \E m \in responses_of(last.op, last.store, last.txn_id) : contains(net, m)
    /\ \E op \in HandlerOps, s \in AllStores, t \in TxnIds :
          s # last.store /\ contains(net, request_of(op, s, t))

\* what C28 says of store_handle_unlock_req(s, t) for a request in the network
unlock_req_outcome(s, t) ==
    LET r == handle_unlock_req(stores, net, s, t) IN
    /\ r.result
    /\ r.stores[s].locked = stores[s].locked \ {key_a, key_aprime}
    /\ r.stores[s].data = stores[s].data
    /\ \A x \in AllStores \ {s} : r.stores[x] = stores[x]
    /\ r.net = send(net (-) SetToBag({unlock_req(s, t)}), unlock_resp(s, t))
    /\ count(r.net, unlock_resp(s, t)) = count(net, unlock_resp(s, t)) + 1
    /\ (stores[s].locked = {}) => r.stores[s].locked = {}

\* C28 (unlock request): store_handle_unlock_req on an UnlockReq that is in the network
\* and whose txn_id is not older than last_seen_txn_id removes A and A' from the locked
\* keys, leaves data unchanged and emits exactly one UnlockResp with the request's txn
\* id; on a store with no locked key it changes neither data nor the locked keys and
\* still emits the UnlockResp.
C28_UnlockReqEffect ==
    \A s \in AllStores, t \in TxnIds :
        (contains(net, unlock_req(s, t)) /\ t >= stores[s].last_seen_txn_id) =>
            unlock_req_outcome(s, t)

\* the same for the requests the code takes for non-stale (txn_id strictly newer than
\* last_seen_txn_id)
UnlockReqEffectNewer ==
    \A s \in AllStores, t \in TxnIds :
        (contains(net, unlock_req(s, t)) /\ t > stores[s].last_seen_txn_id) =>
            unlock_req_outcome(s, t)

\* C29 (rename request dropped silently): store_handle_rename_req on a RenameReq that is
\* in the network, whose txn_id is not older than last_seen_txn_id, for a store that
\* does not hold A' and for which (A locked and A' locked and A in data) is false,
\* returns true, consumes the request, emits no response and leaves data and the
\* locked keys unchanged; last_seen_txn_id becomes the larger of itself and the txn_id.
C29_RenameReqSilentDrop ==
    \A s \in AllStores, t \in TxnIds :
        LET r == handle_rename_req(stores, net, s, t) IN
        (/\ contains(net, rename_req(s, t))
         /\ t >= stores[s].last_seen_txn_id
         /\ ~has_aprime(s)
         /\ ~(is_locked(stores[s], key_a) /\ is_locked(stores[s], key_aprime) /\ has_a(s))) =>
            /\ r.result
            /\ r.net = net (-) SetToBag({rename_req(s, t)})
            /\ count(r.net, rename_resp(s, t)) = count(net, rename_resp(s, t))
            /\ r.stores[s].data = stores[s].data
            /\ r.stores[s].locked = stores[s].locked
            /\ r.stores[s].last_seen_txn_id = Max(stores[s].last_seen_txn_id, t)
            /\ \A x \in AllStores \ {s} : r.stores[x] = stores[x]

\* a rename request has just been consumed without an answer by a store that holds A
\* unlocked, and the store has recorded the request's txn id
C29_Witness ==
    /\ last.op = "store_handle_rename_req" /\ last.result
    /\ has_a(last.store) /\ ~has_aprime(last.store)
    /\ stores[last.store].locked = {}
    /\ stores[last.store].last_seen_txn_id = last.txn_id
    /\ ~contains(net, rename_resp(last.store, last.txn_id))

\* what the specification-layer handler computes from the abstract state
SystemSpec_handle(op, sts, n, s, t) ==
    CASE op = "store_handle_lock_req" -> SystemSpec_store_handle_lock_req(sts, n, s, t)
      [] op = "store_handle_rename_req" -> SystemSpec_store_handle_rename_req(sts, n, s, t)
      [] op = "store_handle_unlock_req" -> SystemSpec_store_handle_unlock_req(sts, n, s, t)

\* the executable handler and the specification-layer handler agree on (op, s, t): the
\* view of the resulting stores and the resulting network multiset are the same
handlers_agree(op, s, t) ==
    LET exec == handle(op, stores, net, s, t)
        abstract == SystemSpec_handle(op, stores_view(stores), net, s, t)
    IN  /\ stores_view(exec.stores) = abstract.stores
        /\ exec.net = abstract.net

\* C30 (the driver refines the specification layer): for every handler, store s and
\* txn id t whose request is in the network, the executable handler gives the same
\* store states (data, locked keys, last_seen_txn_id) and the same network multiset as
\* the specification-layer handler applied to the view of the state.
C30_ExecRefinesSpec ==
    \A op \in HandlerOps, s \in AllStores, t \in TxnIds :
        contains(net, request_of(op, s, t)) => handlers_agree(op, s, t)

\* the same for the requests whose txn_id differs from the store's last_seen_txn_id
RefinesUnlessEqualTxnId ==
    \A op \in HandlerOps, s \in AllStores, t \in TxnIds :
        (contains(net, request_of(op, s, t)) /\ t # stores[s].last_seen_txn_id) =>
            handlers_agree(op, s, t)

\* the driver operations that act on the coordinator
CoordOps ==
    CoordSendOps \cup CoordRecvOps \cup {"coord_decide_commit", "coord_crash", "coord_recover"}

\* C31 (Done is terminal): is_terminal holds of Done only, and once phase = Done no
\* coordinator operation of the driver (send, receive, decide_commit, crash, recover)
\* is taken and no step changes the coordinator's phase, current_txn_id, wal_committed
\* or volatile sets: the phase stays Done.
C31_DoneIsTerminal ==
    /\ \A p \in Phases : is_terminal(p) <=> (p = "Done")
    /\ [][ is_terminal(coord.phase) =>
              /\ coord' = coord
              /\ coord'.phase = "Done"
              /\ last'.op \notin CoordOps ]_vars

\* a store has just handled a request after the coordinator was done
C31_Witness ==
    /\ coord.phase = "Done"
    /\ last.op \in HandlerOps /\ last.result

\* C32 (the commit decision is irrevocable): wal_committed is false until decide_commit
\* sets it, and once it is true no step (crash, recover, a receive, a send, a handler)
\* sets it back to false.
C32_CommitIrrevocable ==
    [][ /\ coord.wal_committed => coord'.wal_committed
        /\ (~coord.wal_committed /\ coord'.wal_committed) =>
              last'.op = "coord_decide_commit" ]_vars

\* the coordinator has committed, crashed, recovered and consumed a rename response
C32_Witness ==
    /\ coord.wal_committed /\ coord.current_txn_id > 1
    /\ last.op = "coord_recv_rename_resp" /\ last.result

\* C33 (no rename before the durable commit): in every state reachable from
\* ExecSystem::new, if a store holds A' or a RenameReq is in the network, then
\* wal_committed is true.
C33_RenameOnlyAfterCommit ==
    (\/ \E s \in AllStores : has_aprime(s)
     \/ \E m \in BagToSet(net) : m.type = "RenameReq") => coord.wal_committed

\* one store has renamed and the rename request of another is in the network
C33_Witness ==
    /\ \E s \in AllStores : has_aprime(s)
    /\ \E m \in BagToSet(net) : m.type = "RenameReq" /\ ~has_aprime(m.store)
    /\ coord.wal_committed

\* C34 (an aborted transaction renames nothing): in every state reachable from
\* ExecSystem::new with phase = Done and wal_committed = false, every store holds A with
\* the initial value and does not hold A'; and at Done the stores agree on whether they
\* have renamed.
C34_AbortRenamesNothing ==
    /\ (coord.phase = "Done" /\ ~coord.wal_committed) =>
          \A s \in AllStores :
              /\ has_a(s) /\ stores[s].data[key_a] = initial_value
              /\ ~has_aprime(s)
    /\ (coord.phase = "Done") =>
          \A s1 \in AllStores, s2 \in AllStores : has_aprime(s1) <=> has_aprime(s2)

\* the abort has just completed: the last unlock was acknowledged without a commit
\* after a store had locked its keys
C34_Witness ==
    /\ coord.phase = "Done" /\ ~coord.wal_committed
    /\ last.op = "coord_recv_unlock_resp" /\ last.result
    /\ \E s \in AllStores : stores[s].last_seen_txn_id > 1

\* store s can serve a rename request: it holds A' already, or it holds A with A and A'
\* locked
rename_ready(s) ==
    \/ has_aprime(s)
    \/ has_a(s) /\ is_locked(stores[s], key_a) /\ is_locked(stores[s], key_aprime)

\* C35 (stores are ready in Committed): in every state reachable from ExecSystem::new
\* with phase = Committed, every store holds A' or holds A with A and A' locked, so that
\* no RenameReq of the current txn id is dropped for unmet rename preconditions.
C35_CommittedStoresReady ==
    (coord.phase = "Committed") => \A s \in AllStores : rename_ready(s)

\* the responses in the network that carry a txn id older than the coordinator's
old_responses ==
    {m \in BagToSet(net) :
        m.type \in {"LockResp", "RenameResp", "UnlockResp"}
        /\ m.txn_id < coord.current_txn_id}

\* C36 (only responses of the current transaction are consumed): a coordinator receive
\* looks for a response whose txn_id is current_txn_id; no receive step removes a
\* response of an earlier txn id, and a receive changes the coordinator (its sets or
\* its phase) only when a response for that store with the current txn id is in the
\* network.
C36_OnlyCurrentResponses ==
    [][ \A op \in CoordRecvOps :
          /\ \A s \in StoreIds :
                /\ expected_msg(op, s).txn_id = coord.current_txn_id
                /\ \A m \in old_responses :
                      count(lose(net, expected_msg(op, s)).net, m) = count(net, m)
          /\ (last'.op = op) =>
                /\ \A m \in old_responses : count(net', m) = count(net, m)
                /\ (coord' # coord) =>
                      /\ last'.result
                      /\ count(net, expected_msg(op, last'.store)) >= 1
                      /\ net' = net (-) SetToBag({expected_msg(op, last'.store)})
                /\ (~\E s \in StoreIds : contains(net, expected_msg(op, s))) =>
                      coord' = coord ]_vars

\* after a recovery a receive has just found nothing although an unlock response of the
\* earlier transaction is in the network for a store not yet acknowledged
C36_Witness ==
    /\ coord.current_txn_id > 1
    /\ last.op = "coord_recv_unlock_resp" /\ ~last.result
    /\ \E s \in AllStores :
          /\ s \notin coord.unlocks_acked
          /\ contains(net, unlock_resp(s, coord.current_txn_id - 1))
          /\ ~contains(net, unlock_resp(s, coord.current_txn_id))

\* C37 (liveness): from ExecSystem::new, when the coordinator crashes finitely often and
\* is recovered after every crash, and every send, handle and receive step is taken
\* fairly, the coordinator eventually reaches phase = Done.
C37_EventuallyDone == <>(coord.phase = "Done")

\* C38 (the value is never lost or altered): in every state reachable from
\* ExecSystem::new with initial value v, every store holds A or A', and every key
\* present in a store's data is A or A' and maps to v.
C38_ValuePreserved ==
    \A s \in AllStores :
        /\ has_a(s) \/ has_aprime(s)
        /\ \A k \in DOMAIN stores[s].data :
              k \in {key_a, key_aprime} /\ stores[s].data[k] = initial_value

\* every store has renamed and holds the initial value under A'
C38_Witness ==
    \A s \in AllStores :
        /\ has_aprime(s) /\ ~has_a(s)
        /\ stores[s].data[key_aprime] = initial_value

\* C39 (no locks at Done): in every state reachable from ExecSystem::new with
\* phase = Done, no store has A or A' locked, and handling any LockReq that is still in
\* the network (delayed or duplicated, of any txn id) leaves the store without locked
\* keys.
C39_DoneNoLocks ==
    (coord.phase = "Done") =>
        \A s \in AllStores :
            /\ stores[s].locked = {}
            /\ \A t \in TxnIds :
                  contains(net, lock_req(s, t)) =>
                      /\ handle_lock_req(stores, net, s, t).result
                      /\ handle_lock_req(stores, net, s, t).stores[s].locked = {}

\* a delayed lock request has just been handled after the coordinator was done
C39_Witness ==
    /\ coord.phase = "Done"
    /\ last.op = "store_handle_lock_req" /\ last.result
    /\ \A s \in AllStores : stores[s].locked = {}

\* C40 (txn ids come from the coordinator): in every reachable state every message in
\* the network has a store id in AllStores and a txn_id from 1 to the coordinator's
\* current_txn_id, and every store's last_seen_txn_id is at most current_txn_id.
C40_TxnIdsMinted ==
    /\ \A m \in BagToSet(net) :
          /\ m.store \in AllStores
          /\ 1 <= m.txn_id /\ m.txn_id <= coord.current_txn_id
    /\ \A s \in AllStores : stores[s].last_seen_txn_id <= coord.current_txn_id

\* after a recovery a message of the earlier transaction is still in the network and a
\* store has seen the new transaction
C40_Witness ==
    /\ coord.current_txn_id > 1
    /\ \E m \in BagToSet(net) : m.txn_id < coord.current_txn_id
    /\ \E s \in AllStores : stores[s].last_seen_txn_id = coord.current_txn_id

====
